---- MODULE Spec2Model ----
(***************************************************************************)
(* A model of the A2A / ADK glue code of vertex-ai-agents:                 *)
(*   - get_gcp_auth_headers and TokenManager (OIDC token cache),           *)
(*   - the agent executors' execute (task lifecycle on the event queue),   *)
(*   - RemoteAgentConnections.send_message (remote event stream),          *)
(*   - AdkOrchestratorAgent.send_message (session-state bookkeeping).      *)
(* Optional Python values (None or a value) are sets of at most one        *)
(* element: {} is None, {v} is v.  A headers dict is a set of <<key,       *)
(* value>> pairs.                                                          *)
(***************************************************************************)
EXTENDS Integers, Sequences, FiniteSets, TLC

VARIABLES
    \* ---- TokenManager ----
    clock,                   \* time.time()
    refresh_buffer_seconds,  \* TokenManager.refresh_buffer_seconds
    _token,                  \* TokenManager._token   ({} is None)
    _expiry,                 \* TokenManager._expiry  ({} is None)
    last_call,               \* observation: the most recent get_headers call
    last_fetch_ok,           \* observation: the most recent successful fetch
    \* ---- AdkOrchestratorAgent.send_message / RemoteAgentConnections ----
    state,                   \* tool_context.state (the session state dict)
    actions,                 \* tool_context.actions of the current tool call
    saved_artifacts,         \* file ids given to tool_context.save_artifact
    opc,                     \* where the orchestrator's send_message stands
    cur_call,                \* the running call: agent_name, the state before
    pulled,                  \* observation: per event taken from the stream,
                             \*   "Message" or the state of its task
    last_event,              \* the event taken last ({} before the first)
    stream_status,           \* what the remote event stream did last
    lastTask,                \* RemoteAgentConnections.send_message's lastTask
    conn_result,             \* what RemoteAgentConnections.send_message did
    last_check,              \* observation: last is_terminal_or_interrupted call
    n_sent,                  \* request messages handed to remote agents
    last_request,            \* the request message sent last
    last_send,               \* observation: the send_message call ended last
    calls,                   \* send_message calls started
    \* ---- the agent executors (AgentExecutor.execute) ----
    variant,                 \* which executor class this is
    agent_engine_id,         \* self.agent_engine_id ("" when it is empty)
    agent,                   \* self.agent is not None
    token_manager,           \* self.token_manager is not None
    mcp_headers,             \* the McpToolset's connection headers
    sessions,                \* ids of the sessions the session service holds
    session,                 \* the session of the running execute ({}: none)
    n_created,               \* sessions created so far
    context,                 \* the RequestContext of the running execute
    events,                  \* the request's event queue
    epc,                     \* where execute stands
    answer_sent,             \* the local answer_sent of execute
    run_events,              \* events taken from runner.run_async
    exc,                     \* the exception execute is ending with
    result,                  \* how the last execute ended
    requests,                \* execute calls started
    session_log,             \* observation: per _get_or_create_session call,
                             \*   its context id, the session it returned and
                             \*   whether it created that session
    cancels,                 \* cancel calls made
    last_cancel              \* observation: the most recent cancel call

tokenVars == <<clock, refresh_buffer_seconds, _token, _expiry, last_call, last_fetch_ok>>

connVars == <<pulled, last_event, stream_status, lastTask, conn_result, last_check>>

orchVars == <<state, actions, saved_artifacts, opc, cur_call, n_sent, last_request,
              last_send, calls>>

execVars == <<variant, agent_engine_id, agent, token_manager, mcp_headers, sessions,
              session, n_created, context, events, epc, answer_sent, run_events, exc,
              result, requests, session_log, cancels, last_cancel>>

vars == <<tokenVars, connVars, orchVars, execVars>>

None == {}
Some(v) == {v}
TheValue(o) == CHOOSE v \in o : TRUE

(***************************************************************************)
(* Bounds                                                                  *)
(***************************************************************************)
MaxClock == 7000
ClockSteps == {1100, 3300}
Tokens == {"t1", "t2"}
Buffers == {0, 300, 3700}

(***************************************************************************)
(* get_gcp_auth_headers                                                    *)
(***************************************************************************)
\* What google_id_token.fetch_id_token does: it returns a token, or raises
\* DefaultCredentialsError, or raises some other Exception.
FetchOutcomes ==
    [kind : {"ok"}, token : Tokens]
        \cup {[kind |-> "DefaultCredentialsError", token |-> ""],
              [kind |-> "Exception", token |-> ""]}

Returned(h) == [raised |-> FALSE, headers |-> h]
Raised == [raised |-> TRUE, headers |-> {}]

\* Faulty variant: only DefaultCredentialsError is caught.
get_gcp_auth_headers_uncaught(o) ==
    IF o.kind = "ok" THEN Returned({<<"Authorization", "Bearer " \o o.token>>})
    ELSE IF o.kind = "DefaultCredentialsError" THEN Returned({})
    ELSE Raised

get_gcp_auth_headers(o) ==
    IF o.kind = "ok" THEN Returned({<<"Authorization", "Bearer " \o o.token>>})
    ELSE IF o.kind = "DefaultCredentialsError" THEN Returned({})
    ELSE IF o.kind = "Exception" THEN Returned({})
    ELSE Raised

\* dict.get("Authorization"): the value, or None
HeaderGet(h, k) == {p[2] : p \in {q \in h : q[1] = k}}

(***************************************************************************)
(* TokenManager                                                            *)
(***************************************************************************)
TOKEN_LIFETIME == 3600
DEFAULT_REFRESH_BUFFER == 300

\* Faulty variant: a token still counts as fresh at the very second it expires.
NeedsRefresh_late(tok, exp, now) ==
    tok = None \/ exp = None \/ now > TheValue(exp)

\* self._token is None or self._expiry is None or current_time >= self._expiry
NeedsRefresh(tok, exp, now) ==
    tok = None \/ exp = None \/ now >= TheValue(exp)

\* current_time + 3600 - self.refresh_buffer_seconds
NewExpiry(now, buf) == now + TOKEN_LIFETIME - buf

\* Faulty variant: a failed refresh leaves the old expiry in place.
ExpiryAfterFailedRefresh_kept(exp) == exp

\* the else branch of the refresh: self._expiry = None
ExpiryAfterFailedRefresh(exp) == None

\* the else branch of the refresh: self._token = None
TokenAfterFailedRefresh(tok) == None

\* {"Authorization": self._token} if self._token else {}
HeadersOf(tok) == IF tok # None /\ TheValue(tok) # ""
                  THEN {<<"Authorization", TheValue(tok)>>} ELSE {}

\* TokenManager.get_headers as a function of the manager's fields, the time
\* and what fetch_id_token would do: the new fields and the call's result.
get_headers(tok, exp, buf, now, o) ==
    IF NeedsRefresh(tok, exp, now)
    THEN LET r == get_gcp_auth_headers(o)
             auth_header == HeaderGet(r.headers, "Authorization")
         IN  IF r.raised
             THEN [token |-> tok, expiry |-> exp, fetched |-> TRUE, gcp |-> Some(r),
                   raised |-> TRUE, fetch_ok |-> FALSE, headers |-> {}]
             ELSE IF auth_header # None /\ TheValue(auth_header) # ""
             THEN [token |-> auth_header, expiry |-> Some(NewExpiry(now, buf)),
                   fetched |-> TRUE, gcp |-> Some(r), raised |-> FALSE,
                   fetch_ok |-> TRUE, headers |-> HeadersOf(auth_header)]
             ELSE [token |-> TokenAfterFailedRefresh(tok),
                   expiry |-> ExpiryAfterFailedRefresh(exp),
                   fetched |-> TRUE, gcp |-> Some(r), raised |-> FALSE,
                   fetch_ok |-> FALSE,
                   headers |-> HeadersOf(TokenAfterFailedRefresh(tok))]
    ELSE [token |-> tok, expiry |-> exp, fetched |-> FALSE, gcp |-> None,
          raised |-> FALSE, fetch_ok |-> FALSE, headers |-> HeadersOf(tok)]

NoCall == [called |-> FALSE]

\* The observation of one get_headers call.
CallRecord(tok, exp, now, o, r, prev_ok) ==
    [called |-> TRUE, time |-> now, pre_token |-> tok, pre_expiry |-> exp,
     pre_fetch_ok |-> prev_ok, outcome |-> o, fetched |-> r.fetched, gcp |-> r.gcp,
     raised |-> r.raised, headers |-> r.headers,
     post_token |-> r.token, post_expiry |-> r.expiry]

\* One call of TokenManager.get_headers at the current time.
GetHeaders ==
    \E o \in FetchOutcomes :
        LET r == get_headers(_token, _expiry, refresh_buffer_seconds, clock, o)
        IN  /\ _token' = r.token
            /\ _expiry' = r.expiry
            /\ last_call' = CallRecord(_token, _expiry, clock, o, r, last_fetch_ok)
            /\ last_fetch_ok' = IF r.fetch_ok
                                THEN Some([time |-> clock,
                                           value |-> TheValue(r.token)])
                                ELSE last_fetch_ok
            /\ UNCHANGED <<clock, refresh_buffer_seconds>>

\* time.time() moves on between calls.
Tick ==
    \E d \in ClockSteps :
        /\ clock + d <= MaxClock
        /\ clock' = clock + d
        /\ UNCHANGED <<refresh_buffer_seconds, _token, _expiry, last_call, last_fetch_ok>>

\* TokenManager.__init__
TokenFields ==
    /\ clock = 0
    /\ refresh_buffer_seconds \in Buffers
    /\ _token = None
    /\ _expiry = None
    /\ last_call = NoCall
    /\ last_fetch_ok = None


(***************************************************************************)
(* A2A values: task states, parts, tasks, messages                         *)
(***************************************************************************)
\* a2a.types.TaskState
TaskStates == {"submitted", "working", "input_required", "completed", "canceled",
               "failed", "rejected", "auth_required", "unknown"}

\* a2a.types.Part: a text part, a data part, or a file part whose file
\* carries its bytes inline (base64), the only file convert_part reads.
TextPartOf(t) == [kind |-> "text", v |-> t]
DataPartOf(d) == [kind |-> "data", v |-> d]
FilePartOf(n) == [kind |-> "file", v |-> n]

TaskIds == {"task1", "task2"}
ContextIds == {"", "ctx1", "ctx2"}
AgentNames == {"Weather Agent", "Cocktail Agent", "Unknown Agent"}

\* status.message (None or a list of parts) and artifacts (lists of parts)
NoContent == [message |-> None, artifacts |-> << >>]

Contents ==
    { NoContent,
      [message |-> Some(<<TextPartOf("status")>>),
       artifacts |-> << <<DataPartOf("d1")>>, <<TextPartOf("a2"), FilePartOf("f1")>> >>],
      [message |-> Some(<<FilePartOf("f1")>>), artifacts |-> << <<TextPartOf("a1")>> >>] }

\* The tasks a remote agent answers with: every id, context id and state, and
\* every content for one id and context id.
Tasks ==
    [id : TaskIds, context_id : ContextIds, status : TaskStates, content : {NoContent}]
        \cup [id : {"task1"}, context_id : {"ctx1"}, status : TaskStates,
              content : Contents]

MessageParts == { <<TextPartOf("reply")>>, <<FilePartOf("f1"), TextPartOf("reply")>> }

\* What agent_client.send_message yields: a Message, or a tuple whose first
\* element is a Task.
StreamEvents ==
    [kind : {"Message"}, parts : MessageParts]
        \cup [kind : {"Task"}, task : Tasks]

StreamErrors == {"ConnectionError"}

(***************************************************************************)
(* RemoteAgentConnections                                                  *)
(***************************************************************************)
MaxStream == 2

\* RemoteAgentConnections.is_terminal_or_interrupted (of task.status.state)
is_terminal_or_interrupted(s) ==
    s \in {"completed", "canceled", "failed", "input_required", "unknown"}

\* Faulty variant: only a Message ends the loop; a terminal task does not.
ReturnsAt_message_only(ev) == ev.kind = "Message"

\* The two returns inside the async for loop of send_message.
ReturnsAt(ev) ==
    \/ ev.kind = "Message"
    \/ ev.kind = "Task" /\ is_terminal_or_interrupted(ev.task.status)

\* The results of RemoteAgentConnections.send_message.
ConnMessage(ev) == [kind |-> "Message", parts |-> ev.parts]
ConnTask(t) == [kind |-> "Task", task |-> t]
ConnNone == [kind |-> "None"]
ConnRaised(e) == [kind |-> "raised", error |-> e]

ConnReturn(ev) == IF ev.kind = "Message" THEN ConnMessage(ev) ELSE ConnTask(ev.task)

\* return lastTask, after the loop
ConnReturnLast(lt) == IF lt = None THEN ConnNone ELSE ConnTask(TheValue(lt))

NoCheck == [called |-> FALSE]

StreamOpen == [s |-> "open", error |-> ""]
StreamEnded == [s |-> "ended", error |-> ""]
StreamRaised(e) == [s |-> "raised", error |-> e]

EventKey(ev) == IF ev.kind = "Message" THEN "Message" ELSE ev.task.status

\* One turn of the async for loop: the stream yields an event.
ConnEvent ==
    /\ opc = "streaming"
    /\ Len(pulled) < MaxStream
    /\ \E ev \in StreamEvents :
        /\ pulled' = Append(pulled, EventKey(ev))
        /\ last_event' = Some(ev)
        /\ last_check' = IF ev.kind = "Task"
                         THEN [called |-> TRUE, status |-> ev.task.status,
                               result |-> is_terminal_or_interrupted(ev.task.status)]
                         ELSE last_check
        /\ IF ReturnsAt(ev)
           THEN /\ conn_result' = Some(ConnReturn(ev))
                /\ opc' = "response"
                /\ lastTask' = None      \* the local is gone with the return
           ELSE /\ lastTask' = Some(ev.task)
                /\ UNCHANGED <<conn_result, opc>>
    /\ UNCHANGED <<stream_status, state, actions, saved_artifacts, cur_call, n_sent,
                   last_request, last_send, calls>>

\* The stream ends: the loop is left and lastTask is returned.
ConnEnd ==
    /\ opc = "streaming"
    /\ stream_status' = StreamEnded
    /\ conn_result' = Some(ConnReturnLast(lastTask))
    /\ opc' = "response"
    /\ lastTask' = None
    /\ UNCHANGED <<pulled, last_event, last_check>>
    /\ UNCHANGED <<state, actions, saved_artifacts, cur_call, n_sent, last_request,
                   last_send, calls>>

\* The stream raises: the except clause logs and re-raises.
ConnRaise ==
    /\ opc = "streaming"
    /\ \E e \in StreamErrors :
        /\ stream_status' = StreamRaised(e)
        /\ conn_result' = Some(ConnRaised(e))
    /\ opc' = "response"
    /\ lastTask' = None
    /\ UNCHANGED <<pulled, last_event, last_check>>
    /\ UNCHANGED <<state, actions, saved_artifacts, cur_call, n_sent, last_request,
                   last_send, calls>>

(***************************************************************************)
(* convert_part / convert_parts                                            *)
(***************************************************************************)
\* What a conversion leaves behind: the converted values, the file ids given
\* to save_artifact, and whether skip_summarization and escalate were set.
EmptyConv == [out |-> << >>, saves |-> {}, flag |-> FALSE]

\* convert_part: a text part gives its text, a data part its data; a file
\* part is decoded, saved as an artifact and replaced by a DataPart naming
\* the artifact, and skip_summarization and escalate are set.
convert_part(p) ==
    IF p.kind = "text"
    THEN [value |-> [type |-> "str", v |-> p.v], save |-> {}, flag |-> FALSE]
    ELSE IF p.kind = "data"
    THEN [value |-> [type |-> "dict", v |-> p.v], save |-> {}, flag |-> FALSE]
    ELSE [value |-> [type |-> "DataPart artifact-file-id", v |-> p.v],
          save |-> {p.v}, flag |-> TRUE]

RECURSIVE ConvertFrom(_, _, _)
ConvertFrom(parts, i, acc) ==
    IF i > Len(parts) THEN acc
    ELSE LET c == convert_part(parts[i])
         IN  ConvertFrom(parts, i + 1,
                 [out |-> Append(acc.out, c.value),
                  saves |-> acc.saves \cup c.save,
                  flag |-> acc.flag \/ c.flag])

\* convert_parts: rval.append(await convert_part(p, tool_context)) for p in parts
convert_parts(parts) == ConvertFrom(parts, 1, EmptyConv)

RECURSIVE ExtendFrom(_, _, _)
ExtendFrom(lists, j, acc) ==
    IF j > Len(lists) THEN acc
    ELSE ExtendFrom(lists, j + 1, ConvertFrom(lists[j], 1, acc))

\* response = []; extended by the status message's parts, then by the parts
\* of each artifact
TaskResponse(task) ==
    ExtendFrom((IF task.content.message # None
                THEN <<TheValue(task.content.message)>> ELSE << >>)
                   \o task.content.artifacts,
               1, EmptyConv)

(***************************************************************************)
(* AdkOrchestratorAgent                                                    *)
(***************************************************************************)
MaxCalls == 2

\* self.remote_agent_connections (filled by register_agent_card)
remote_agent_connections == {"Weather Agent", "Cocktail Agent"}

EmptyState == [agent |-> None, session_active |-> None, task_id |-> None, context_id |-> None]
NoActions == [skip_summarization |-> FALSE, escalate |-> FALSE]
NoSend == [called |-> FALSE]
NoRequest == [to |-> "", task_id |-> None, context_id |-> None]

\* Faulty variant: the agent is recorded before the name is looked up.
StateOnUnknownAgent_recorded(st, name) == [st EXCEPT !.agent = Some(name)]

\* if agent_name not in self.remote_agent_connections: raise ValueError
StateOnUnknownAgent(st, name) == st

\* Faulty variant: an unknown state counts as still active.
SessionActiveAfter_unknown_active(status) ==
    status \notin {"completed", "canceled", "failed"}

\* task.status.state not in [completed, canceled, failed, unknown]
SessionActiveAfter(status) ==
    status \notin {"completed", "canceled", "failed", "unknown"}

\* if task.context_id: state["context_id"] = task.context_id
ContextIdAfter(old, task_context_id) ==
    IF task_context_id # "" THEN Some(task_context_id) ELSE old

\* The three assignments to the state after a Task came back.
StateAfterTask(st, task) ==
    [st EXCEPT !.session_active = Some(SessionActiveAfter(task.status)),
               !.context_id = ContextIdAfter(st.context_id, task.context_id),
               !.task_id = Some(task.id)]

\* Faulty variant: only a failed task raises.
TaskError_failed_only(status) ==
    IF status = "failed" THEN "ValueError: failed" ELSE ""

\* The elif branches that raise ValueError ("" when none does).
TaskError(status) ==
    IF status = "canceled" THEN "ValueError: cancelled"
    ELSE IF status = "failed" THEN "ValueError: failed"
    ELSE ""

\* if task.status.state == TaskState.input_required: force user input back
ActionsAfterTask(acts, status) ==
    IF status = "input_required"
    THEN [skip_summarization |-> TRUE, escalate |-> TRUE]
    ELSE acts

ActionsAfterConv(acts, conv) ==
    IF conv.flag THEN [skip_summarization |-> TRUE, escalate |-> TRUE] ELSE acts

RaisedOutcome(e) == [kind |-> "raised", error |-> e, value |-> << >>]
ReturnedOutcome(v) == [kind |-> "returned", error |-> "", value |-> v]
ConvOutcome(conv) == ReturnedOutcome(conv.out)

SendRecord(name, pre, post, sent_before, sent_after, resp, out, acts) ==
    [called |-> TRUE, agent_name |-> name, pre_state |-> pre, post_state |-> post,
     sent_before |-> sent_before, sent_after |-> sent_after, response |-> resp,
     outcome |-> out, actions |-> acts]

ConnReset ==
    /\ pulled' = << >>
    /\ last_event' = None
    /\ stream_status' = StreamOpen
    /\ lastTask' = None
    /\ conn_result' = None
    /\ last_check' = NoCheck

\* send_message with an agent_name that is not registered.
SendMessageUnknownAgent ==
    /\ opc = "idle"
    /\ calls < MaxCalls
    /\ \E name \in AgentNames \ remote_agent_connections :
        /\ state' = StateOnUnknownAgent(state, name)
        /\ last_send' = SendRecord(name, state, state', n_sent, n_sent, None,
                                   RaisedOutcome("ValueError: not found"), NoActions)
    /\ calls' = calls + 1
    /\ actions' = NoActions
    /\ UNCHANGED <<saved_artifacts, opc, cur_call, n_sent, last_request>>
    /\ UNCHANGED connVars

\* send_message up to `await client.send_message(request_message)`.
SendMessageStart ==
    /\ opc = "idle"
    /\ calls < MaxCalls
    /\ \E name \in remote_agent_connections :
        /\ state' = [state EXCEPT !.agent = Some(name)]
        /\ cur_call' = [agent_name |-> name, pre_state |-> state, sent_before |-> n_sent]
        /\ last_request' = [to |-> name, task_id |-> state.task_id,
                            context_id |-> state.context_id]
    /\ n_sent' = n_sent + 1
    /\ calls' = calls + 1
    /\ actions' = NoActions
    /\ last_send' = NoSend
    /\ opc' = "streaming"
    /\ ConnReset
    /\ UNCHANGED saved_artifacts

\* send_message from the response of the remote agent to its return or raise.
SendMessageFinish ==
    /\ opc = "response"
    /\ LET resp == TheValue(conn_result)
           conv == IF resp.kind = "Message" THEN convert_parts(resp.parts)
                   ELSE IF resp.kind = "Task" /\ TaskError(resp.task.status) = ""
                   THEN TaskResponse(resp.task)
                   ELSE EmptyConv
           out == IF resp.kind = "raised" THEN RaisedOutcome(resp.error)
                  ELSE IF resp.kind = "None" THEN RaisedOutcome("AttributeError")
                  ELSE IF resp.kind = "Task" /\ TaskError(resp.task.status) # ""
                  THEN RaisedOutcome(TaskError(resp.task.status))
                  ELSE ConvOutcome(conv)
       IN  /\ state' = IF resp.kind = "Task" THEN StateAfterTask(state, resp.task)
                       ELSE state
           /\ actions' = ActionsAfterConv(
                            IF resp.kind = "Task"
                            THEN ActionsAfterTask(actions, resp.task.status)
                            ELSE actions, conv)
           /\ saved_artifacts' = saved_artifacts \cup conv.saves
           /\ last_send' = SendRecord(cur_call.agent_name, cur_call.pre_state, state',
                                      cur_call.sent_before, n_sent, conn_result, out,
                                      actions')
    /\ opc' = "idle"
    /\ ConnReset
    /\ UNCHANGED <<cur_call, n_sent, last_request, calls>>

\* before_model_callback: a session that is not active becomes active.
BeforeModelCallback ==
    /\ opc = "idle"
    /\ state.session_active \in {None, Some(FALSE)}
    /\ state' = [state EXCEPT !.session_active = Some(TRUE)]
    /\ UNCHANGED <<actions, saved_artifacts, opc, cur_call, n_sent, last_request,
                   last_send, calls>>
    /\ UNCHANGED connVars

OrchFields ==
    /\ state = EmptyState
    /\ actions = NoActions
    /\ saved_artifacts = {}
    /\ opc = "idle"
    /\ cur_call = [agent_name |-> "", pre_state |-> EmptyState, sent_before |-> 0]
    /\ n_sent = 0
    /\ last_request = NoRequest
    /\ last_send = NoSend
    /\ calls = 0
    /\ pulled = << >>
    /\ last_event = None
    /\ stream_status = StreamOpen
    /\ lastTask = None
    /\ conn_result = None
    /\ last_check = NoCheck

(***************************************************************************)
(* The agent executors: AdkBaseMcpAgentExecutor ("base"),                  *)
(* AdkOrchestratorAgentExecutor ("orch"), WeatherAgentExecutor ("weather") *)
(***************************************************************************)
MaxRequests == 2
MaxRunEvents == 2
MaxCancels == 1

Variants == {"base", "orch", "weather"}
RequestTaskIds == {"task1"}
RequestContextIds == {"ctx1", "ctx2"}
ExecErrors == {"unavailable", "bad request"}

\* The texts of the parts of an ADK event ("" is a part without text).
PartTexts == { << >>, <<"sunny">>, <<"", "sunny">>, <<"sunny", "warm">> }

\* What runner.run_async yields.
RunEvents == [final : BOOLEAN, parts : PartTexts]

StatusEvent(st, text) == [kind |-> "status", state |-> st, name |-> "", text |-> text]
ArtifactEvent(name, text) == [kind |-> "artifact", state |-> "", name |-> name, text |-> text]

RECURSIVE JoinWithSpace(_)
JoinWithSpace(texts) ==
    IF Len(texts) = 0 THEN ""
    ELSE IF Len(texts) = 1 THEN texts[1]
    ELSE texts[1] \o " " \o JoinWithSpace(Tail(texts))

\* _extract_answer: the non-empty texts joined by a space
_extract_answer(ev) ==
    LET text_parts == SelectSeq(ev.parts, LAMBDA t : t # "")
    IN  IF text_parts # << >> THEN JoinWithSpace(text_parts) ELSE "No answer found."

\* new_agent_text_message(f"Error: {e!s}")
ErrorText(e) == "Error: " \o e

\* isinstance(self.runner.session_service, InMemorySessionService)
InMemorySessions ==
    \/ variant = "weather"
    \/ variant = "orch" /\ agent_engine_id = ""

\* The id the Vertex AI session service generates for its n-th session.
GeneratedSessionId(n) == "session-" \o ToString(n)

\* Faulty variant: submitted is emitted for an existing task as well.
AfterInit_always_submit(ctx) == "submit"

\* Where execute goes after `if self.agent is None: self._init_agent()`:
\* to updater.submit() if context.current_task is empty.
AfterInit(ctx) == IF ctx.current_task THEN "start_work" ELSE "submit"

\* Where execute goes after start_work: only the base executor refreshes the
\* MCP authentication headers.
AfterStartWork == IF variant = "base" THEN "refresh" ELSE "session"

ExecTokenUnchanged == UNCHANGED <<clock, refresh_buffer_seconds, _token, _expiry,
                                  last_call, last_fetch_ok>>

\* A request arrives: execute is called with a fresh event queue.
ExecuteBegin ==
    /\ epc = "idle"
    /\ requests < MaxRequests
    /\ \E t \in RequestTaskIds, c \in RequestContextIds, cur \in BOOLEAN :
        /\ context' = [task_id |-> t, context_id |-> c, current_task |-> cur]
        /\ epc' = IF agent THEN AfterInit(context') ELSE "init"
    /\ requests' = requests + 1
    /\ events' = << >>
    /\ answer_sent' = FALSE
    /\ run_events' = 0
    /\ exc' = ""
    /\ result' = "running"
    /\ session' = None
    /\ UNCHANGED <<variant, agent_engine_id, agent, token_manager, mcp_headers,
                   sessions, n_created>>
    /\ ExecTokenUnchanged
    /\ UNCHANGED <<session_log, cancels, last_cancel>>

\* _init_agent succeeds.  The base executor builds a TokenManager and takes
\* its first headers for the MCP toolset; the weather executor takes them
\* from get_gcp_auth_headers; the orchestrator has no MCP toolset.
ExecInit ==
    /\ epc = "init"
    /\ agent' = TRUE
    /\ IF variant = "base"
       THEN \E o \in FetchOutcomes :
               LET r == get_headers(None, None, DEFAULT_REFRESH_BUFFER, clock, o)
               IN  /\ token_manager' = TRUE
                   /\ refresh_buffer_seconds' = DEFAULT_REFRESH_BUFFER
                   /\ _token' = r.token
                   /\ _expiry' = r.expiry
                   /\ mcp_headers' = r.headers
       ELSE IF variant = "weather"
       THEN \E o \in FetchOutcomes :
               /\ mcp_headers' = get_gcp_auth_headers(o).headers
               /\ UNCHANGED <<token_manager, refresh_buffer_seconds, _token, _expiry>>
       ELSE UNCHANGED <<mcp_headers, token_manager, refresh_buffer_seconds, _token,
                        _expiry>>
    /\ epc' = AfterInit(context)
    /\ UNCHANGED <<clock, last_call, last_fetch_ok>>
    /\ UNCHANGED <<variant, agent_engine_id, sessions, session, n_created, context,
                   events, answer_sent, run_events, exc, result, requests>>
    /\ UNCHANGED <<session_log, cancels, last_cancel>>

\* An exception leaves execute from outside its try block: nothing is put on
\* the event queue.
Propagate(e) ==
    /\ exc' = e
    /\ result' = "raised"
    /\ epc' = "idle"

\* _init_agent raises (the MCP URL is not set, a remote card cannot be
\* fetched): self.agent stays None.
ExecInitFail ==
    /\ epc = "init"
    /\ \E e \in ExecErrors : Propagate(e)
    /\ UNCHANGED <<variant, agent_engine_id, agent, token_manager, mcp_headers, sessions,
                   session, n_created, context, events, answer_sent, run_events,
                   requests>>
    /\ ExecTokenUnchanged
    /\ UNCHANGED <<session_log, cancels, last_cancel>>

\* if not context.current_task: await updater.submit()
ExecSubmit ==
    /\ epc = "submit"
    /\ events' = Append(events, StatusEvent("submitted", ""))
    /\ epc' = "start_work"
    /\ UNCHANGED <<variant, agent_engine_id, agent, token_manager, mcp_headers, sessions,
                   session, n_created, context, answer_sent, run_events, exc, result,
                   requests>>
    /\ ExecTokenUnchanged
    /\ UNCHANGED <<session_log, cancels, last_cancel>>

\* await updater.start_work()
ExecStartWork ==
    /\ epc = "start_work"
    /\ events' = Append(events, StatusEvent("working", ""))
    /\ epc' = AfterStartWork
    /\ UNCHANGED <<variant, agent_engine_id, agent, token_manager, mcp_headers, sessions,
                   session, n_created, context, answer_sent, run_events, exc, result,
                   requests>>
    /\ ExecTokenUnchanged
    /\ UNCHANGED <<session_log, cancels, last_cancel>>

\* updater.submit() or updater.start_work() raises.
ExecUpdaterFail ==
    /\ epc \in {"submit", "start_work"}
    /\ \E e \in ExecErrors : Propagate(e)
    /\ UNCHANGED <<variant, agent_engine_id, agent, token_manager, mcp_headers, sessions,
                   session, n_created, context, events, answer_sent, run_events,
                   requests>>
    /\ ExecTokenUnchanged
    /\ UNCHANGED <<session_log, cancels, last_cancel>>

\* _refresh_mcp_auth: the toolset gets the token manager's current headers.
ExecRefreshAuth ==
    /\ epc = "refresh"
    /\ IF token_manager
       THEN \E o \in FetchOutcomes :
               LET r == get_headers(_token, _expiry, refresh_buffer_seconds, clock, o)
               IN  /\ _token' = r.token
                   /\ _expiry' = r.expiry
                   /\ mcp_headers' = r.headers
       ELSE UNCHANGED <<_token, _expiry, mcp_headers>>
    /\ epc' = "session"
    /\ UNCHANGED <<clock, refresh_buffer_seconds, last_call, last_fetch_ok>>
    /\ UNCHANGED <<variant, agent_engine_id, agent, token_manager, sessions, session,
                   n_created, context, events, answer_sent, run_events, exc, result,
                   requests>>
    /\ UNCHANGED <<session_log, cancels, last_cancel>>

\* _get_or_create_session: with an in-memory session service the session of
\* the context id is looked up and created when missing; otherwise a new
\* session is created every time, under an id the service generates.
SessionFor(context_id) ==
    IF InMemorySessions THEN context_id ELSE GeneratedSessionId(n_created + 1)

\* Faulty variant: the lookup never finds the session.
get_session_never(sess, session_id) == None

\* session_service.get_session(session_id=context_id) of the in-memory
\* service: the session held under that id, or None.
get_session(sess, session_id) == IF session_id \in sess THEN Some(session_id) ELSE None

ExecGetSession ==
    /\ epc = "session"
    /\ LET found == IF InMemorySessions
                    THEN get_session(sessions, context.context_id)
                    ELSE None
           id == IF found # None THEN TheValue(found)
                 ELSE SessionFor(context.context_id)
       IN  /\ session' = Some(id)
           /\ sessions' = IF found = None THEN sessions \cup {id} ELSE sessions
           /\ n_created' = IF found = None THEN n_created + 1 ELSE n_created
           /\ session_log' = Append(session_log,
                                    [context_id |-> context.context_id,
                                     id |-> id,
                                     created |-> found = None])
    /\ epc' = "run"
    /\ UNCHANGED <<variant, agent_engine_id, agent, token_manager, mcp_headers, context,
                   events, answer_sent, run_events, exc, result, requests>>
    /\ UNCHANGED <<cancels, last_cancel>>
    /\ ExecTokenUnchanged

\* An exception inside the try block is caught by `except Exception as e`.
Caught(e) ==
    /\ exc' = e
    /\ epc' = "handler"

\* The session service raises.
ExecGetSessionFail ==
    /\ epc = "session"
    /\ \E e \in ExecErrors : Caught(e)
    /\ UNCHANGED <<variant, agent_engine_id, agent, token_manager, mcp_headers, sessions,
                   session, n_created, context, events, answer_sent, run_events, result,
                   requests>>
    /\ ExecTokenUnchanged
    /\ UNCHANGED <<session_log, cancels, last_cancel>>

\* Whether the loop handles this event as the final response.
HandlesFinal(ev) == ev.final /\ ~answer_sent

\* One turn of `async for event in self.runner.run_async(...)`: the first
\* final response becomes the "answer" artifact and completes the task.  The
\* weather executor breaks out of the loop there; the others go on consuming.
ExecRunEvent ==
    /\ epc = "run"
    /\ run_events < MaxRunEvents
    /\ \E ev \in RunEvents :
        IF HandlesFinal(ev)
        THEN /\ events' = events \o <<ArtifactEvent("answer", _extract_answer(ev)),
                                      StatusEvent("completed", "")>>
             /\ answer_sent' = TRUE
             /\ IF variant = "weather"
                THEN epc' = "idle" /\ result' = "returned"
                ELSE UNCHANGED <<epc, result>>
        ELSE UNCHANGED <<events, answer_sent, epc, result>>
    /\ run_events' = run_events + 1
    /\ UNCHANGED <<variant, agent_engine_id, agent, token_manager, mcp_headers, sessions,
                   session, n_created, context, exc, requests>>
    /\ ExecTokenUnchanged
    /\ UNCHANGED <<session_log, cancels, last_cancel>>

\* The final response arrives and add_artifact succeeds, but complete raises.
ExecCompleteFail ==
    /\ epc = "run"
    /\ run_events < MaxRunEvents
    /\ \E ev \in RunEvents :
        /\ HandlesFinal(ev)
        /\ events' = Append(events, ArtifactEvent("answer", _extract_answer(ev)))
    /\ \E e \in ExecErrors : Caught(e)
    /\ run_events' = run_events + 1
    /\ UNCHANGED <<variant, agent_engine_id, agent, token_manager, mcp_headers, sessions,
                   session, n_created, context, answer_sent, result, requests>>
    /\ ExecTokenUnchanged
    /\ UNCHANGED <<session_log, cancels, last_cancel>>

\* runner.run_async raises (a model call, a tool or a callback failed).
ExecRunFail ==
    /\ epc = "run"
    /\ \E e \in ExecErrors : Caught(e)
    /\ UNCHANGED <<variant, agent_engine_id, agent, token_manager, mcp_headers, sessions,
                   session, n_created, context, events, answer_sent, run_events, result,
                   requests>>
    /\ ExecTokenUnchanged
    /\ UNCHANGED <<session_log, cancels, last_cancel>>

\* runner.run_async is exhausted: execute returns.
ExecRunEnd ==
    /\ epc = "run"
    /\ epc' = "idle"
    /\ result' = "returned"
    /\ UNCHANGED <<variant, agent_engine_id, agent, token_manager, mcp_headers, sessions,
                   session, n_created, context, events, answer_sent, run_events, exc,
                   requests>>
    /\ ExecTokenUnchanged
    /\ UNCHANGED <<session_log, cancels, last_cancel>>

\* The except clause: a failed status with the error text, then `raise`.
ExecHandler ==
    /\ epc = "handler"
    /\ events' = Append(events, StatusEvent("failed", ErrorText(exc)))
    /\ epc' = "idle"
    /\ result' = "raised"
    /\ UNCHANGED <<variant, agent_engine_id, agent, token_manager, mcp_headers, sessions,
                   session, n_created, context, answer_sent, run_events, exc, requests>>
    /\ ExecTokenUnchanged
    /\ UNCHANGED <<session_log, cancels, last_cancel>>

\* The status of the task as the event queue shows it.
RECURSIVE TaskStatus(_)
TaskStatus(evs) ==
    IF Len(evs) = 0 THEN "none"
    ELSE IF evs[Len(evs)].kind = "status" THEN evs[Len(evs)].state
    ELSE TaskStatus(SubSeq(evs, 1, Len(evs) - 1))

NoCancel == [task_id |-> "", task_status |-> "", raised |-> ""]

\* Faulty variant: cancel reports the task as canceled on the event queue.
CancelQueue_canceled(evs) == Append(evs, StatusEvent("canceled", ""))

\* The event queue after cancel: the method puts nothing on it.
CancelQueue(evs) == evs

\* raise ServerError(error=UnsupportedOperationError())
CancelError == "ServerError(UnsupportedOperationError)"

\* cancel: a warning is logged and the call raises.  The A2A server may call
\* it while execute is running or after it has ended.
ExecCancel ==
    /\ cancels < MaxCancels
    /\ \E t \in RequestTaskIds :
        last_cancel' = [task_id |-> t, task_status |-> TaskStatus(events),
                        raised |-> CancelError]
    /\ events' = CancelQueue(events)
    /\ cancels' = cancels + 1
    /\ UNCHANGED <<variant, agent_engine_id, agent, token_manager, mcp_headers, sessions,
                   session, n_created, context, epc, answer_sent, run_events, exc,
                   result, requests, session_log>>
    /\ ExecTokenUnchanged

\* Time passes between requests.
ExecTick ==
    /\ epc = "idle"
    /\ clock + TOKEN_LIFETIME <= MaxClock
    /\ clock' = clock + TOKEN_LIFETIME
    /\ UNCHANGED <<refresh_buffer_seconds, _token, _expiry, last_call, last_fetch_ok>>
    /\ UNCHANGED execVars

\* AgentExecutor.__init__
ExecRest ==
    /\ agent = FALSE
    /\ token_manager = FALSE
    /\ mcp_headers = {}
    /\ sessions = {}
    /\ session = None
    /\ n_created = 0
    /\ context = [task_id |-> "", context_id |-> "", current_task |-> FALSE]
    /\ events = << >>
    /\ epc = "idle"
    /\ answer_sent = FALSE
    /\ run_events = 0
    /\ exc = ""
    /\ result = "none"
    /\ requests = 0
    /\ session_log = << >>
    /\ cancels = 0
    /\ last_cancel = NoCancel

ExecFields ==
    /\ variant \in Variants
    /\ agent_engine_id \in (IF variant = "orch" THEN {"", "engine1"}
                            ELSE IF variant = "base" THEN {"engine1"} ELSE {""})
    /\ ExecRest

\* The executor as it stands in the specifications that do not run it.
ExecUnused ==
    /\ variant = "orch"
    /\ agent_engine_id = "engine1"
    /\ ExecRest

(***************************************************************************)
(* Specifications                                                          *)
(***************************************************************************)
ExecInit0 ==
    /\ TokenFields /\ refresh_buffer_seconds = DEFAULT_REFRESH_BUFFER
    /\ OrchFields
    /\ ExecFields

ExecNext ==
    \/ ExecuteBegin /\ UNCHANGED <<connVars, orchVars>>
    \/ ExecInit /\ UNCHANGED <<connVars, orchVars>>
    \/ ExecInitFail /\ UNCHANGED <<connVars, orchVars>>
    \/ ExecSubmit /\ UNCHANGED <<connVars, orchVars>>
    \/ ExecStartWork /\ UNCHANGED <<connVars, orchVars>>
    \/ ExecUpdaterFail /\ UNCHANGED <<connVars, orchVars>>
    \/ ExecRefreshAuth /\ UNCHANGED <<connVars, orchVars>>
    \/ ExecGetSession /\ UNCHANGED <<connVars, orchVars>>
    \/ ExecGetSessionFail /\ UNCHANGED <<connVars, orchVars>>
    \/ ExecRunEvent /\ UNCHANGED <<connVars, orchVars>>
    \/ ExecCompleteFail /\ UNCHANGED <<connVars, orchVars>>
    \/ ExecRunFail /\ UNCHANGED <<connVars, orchVars>>
    \/ ExecRunEnd /\ UNCHANGED <<connVars, orchVars>>
    \/ ExecHandler /\ UNCHANGED <<connVars, orchVars>>
    \/ ExecTick /\ UNCHANGED <<connVars, orchVars>>
    \/ ExecCancel /\ UNCHANGED <<connVars, orchVars>>

SpecExec == ExecInit0 /\ [][ExecNext]_vars

OrchInit ==
    /\ TokenFields /\ refresh_buffer_seconds = DEFAULT_REFRESH_BUFFER
    /\ OrchFields
    /\ ExecUnused

OrchNext ==
    \/ SendMessageUnknownAgent /\ UNCHANGED <<tokenVars, execVars>>
    \/ SendMessageStart /\ UNCHANGED <<tokenVars, execVars>>
    \/ ConnEvent /\ UNCHANGED <<tokenVars, execVars>>
    \/ ConnEnd /\ UNCHANGED <<tokenVars, execVars>>
    \/ ConnRaise /\ UNCHANGED <<tokenVars, execVars>>
    \/ SendMessageFinish /\ UNCHANGED <<tokenVars, execVars>>
    \/ BeforeModelCallback /\ UNCHANGED <<tokenVars, execVars>>

SpecOrch == OrchInit /\ [][OrchNext]_vars

TokenInit == TokenFields /\ OrchFields /\ ExecUnused

TokenNext ==
    \/ GetHeaders /\ UNCHANGED <<connVars, orchVars, execVars>>
    \/ Tick /\ UNCHANGED <<connVars, orchVars, execVars>>

SpecToken == TokenInit /\ [][TokenNext]_vars

(***************************************************************************)
(* Claims about TokenManager and get_gcp_auth_headers (under SpecToken)    *)
(***************************************************************************)
\* The refresh deadline the claim names: the time of the last successful
\* fetch + 3600 - refresh_buffer_seconds.
ClaimedDeadline(ok) == TheValue(ok).time + 3600 - refresh_buffer_seconds

\* C8: get_headers fetches a new token if and only if no token is cached or
\* the current time has reached (time of the last successful fetch) + 3600 -
\* refresh_buffer_seconds; every other call returns {'Authorization': <cached
\* value>} without fetching; and a returned value is always the one obtained
\* by the most recent successful fetch.
C8_FetchIffMissingOrExpired ==
    last_call.called =>
        /\ last_call.fetched <=>
              \/ last_call.pre_token = None
              \/ /\ last_call.pre_fetch_ok # None
                 /\ last_call.time >= ClaimedDeadline(last_call.pre_fetch_ok)
        /\ ~last_call.fetched =>
              last_call.headers = {<<"Authorization", TheValue(last_call.pre_token)>>}
        /\ last_call.headers # {} =>
              /\ last_fetch_ok # None
              /\ last_call.headers = {<<"Authorization", TheValue(last_fetch_ok).value>>}

\* C8 witness: a cached token is refreshed at the very second of its
\* deadline, and the call returns the newly fetched value.
C8_Witness ==
    /\ last_call.called
    /\ last_call.pre_token # None
    /\ last_call.time = ClaimedDeadline(last_call.pre_fetch_ok)
    /\ last_call.fetched
    /\ last_call.headers # {<<"Authorization", TheValue(last_call.pre_token)>>}
    /\ last_call.headers # {}

\* C9: a refresh that obtains no Authorization header returns the empty dict
\* and resets _token and _expiry to None (the cached token is discarded), so
\* the next get_headers call fetches again, whenever it comes; and _token is
\* None exactly when _expiry is None.
C9_FailedRefreshResets ==
    /\ (_token = None) <=> (_expiry = None)
    /\ (last_call.called /\ last_call.fetched /\ last_call.outcome.kind # "ok") =>
          /\ last_call.headers = {}
          /\ last_call.post_token = None
          /\ last_call.post_expiry = None
          /\ _token = None
          /\ _expiry = None
          /\ \A o \in FetchOutcomes :
                get_headers(_token, _expiry, refresh_buffer_seconds, clock, o).fetched

\* C9 witness: a refresh failed while a token was cached and not yet expired
\* by its lifetime alone.
C9_Witness ==
    /\ last_call.called
    /\ last_call.fetched
    /\ last_call.outcome.kind # "ok"
    /\ last_call.pre_token # None
    /\ last_call.pre_expiry # None
    /\ _token = None

\* C10: get_gcp_auth_headers never raises; it returns {'Authorization':
\* 'Bearer <token>'} when fetch_id_token succeeds and the empty dict when
\* fetch_id_token raises DefaultCredentialsError or any other Exception.
C10_AuthHeadersNeverRaise ==
    (last_call.called /\ last_call.gcp # None) =>
        LET r == TheValue(last_call.gcp)
            o == last_call.outcome
        IN  /\ ~r.raised
            /\ ~last_call.raised
            /\ o.kind = "ok" =>
                  r.headers = {<<"Authorization", "Bearer " \o o.token>>}
            /\ o.kind \in {"DefaultCredentialsError", "Exception"} =>
                  r.headers = {}

\* C10 witness: fetch_id_token raised an Exception other than
\* DefaultCredentialsError and the call produced the empty dict.
C10_Witness ==
    /\ last_call.called
    /\ last_call.gcp # None
    /\ last_call.outcome.kind = "Exception"
    /\ TheValue(last_call.gcp).headers = {}

(***************************************************************************)
(* Claims about RemoteAgentConnections and the orchestrator's send_message *)
(* (under SpecOrch)                                                        *)
(***************************************************************************)
\* An event at which the claim has send_message return: a Message, or a task
\* that is_terminal_or_interrupted accepts.
StopsAt(key) == key = "Message" \/ is_terminal_or_interrupted(key)

\* C3: RemoteAgentConnections.send_message consumes the stream in order and
\* returns at the first event that is a Message (that Message) or whose task
\* is terminal-or-interrupted (that Task), consuming nothing after it; when
\* the stream ends without such an event it returns the task of the last
\* event, or None if there was no event; an exception of the stream is
\* re-raised.
C3_ReturnsAtFirstDecisiveEvent ==
    opc = "response" =>
        LET n == Len(pulled)
            r == TheValue(conn_result)
        IN  /\ \A i \in 1..(n - 1) : ~StopsAt(pulled[i])
            /\ stream_status.s = "open" =>
                  /\ n >= 1
                  /\ StopsAt(pulled[n])
                  /\ LET ev == TheValue(last_event)
                     IN  IF ev.kind = "Message"
                         THEN r = [kind |-> "Message", parts |-> ev.parts]
                         ELSE r = [kind |-> "Task", task |-> ev.task]
            /\ stream_status.s = "ended" =>
                  /\ n = 0 => r = [kind |-> "None"]
                  /\ n >= 1 =>
                        /\ ~StopsAt(pulled[n])
                        /\ r = [kind |-> "Task", task |-> TheValue(last_event).task]
            /\ stream_status.s = "raised" =>
                  /\ r = [kind |-> "raised", error |-> stream_status.error]
                  /\ n >= 1 => ~StopsAt(pulled[n])

\* C3 witness: after an in-progress task the stream yields a completed task,
\* and send_message returns it while the stream is still open.
C3_Witness ==
    /\ opc = "response"
    /\ stream_status.s = "open"
    /\ Len(pulled) = 2
    /\ pulled[1] = "working"
    /\ pulled[2] = "completed"
    /\ TheValue(conn_result) = [kind |-> "Task", task |-> TheValue(last_event).task]

\* C4: is_terminal_or_interrupted is True for completed, canceled, failed,
\* rejected, input_required, auth_required and unknown, and False for
\* submitted and working.
C4_TerminalOrInterruptedTable ==
    last_check.called =>
        (last_check.result <=>
            last_check.status \in {"completed", "canceled", "failed", "rejected",
                                   "input_required", "auth_required", "unknown"})

\* C5: after a Task answer, session_active is True exactly when the task
\* state is none of completed, canceled, failed, unknown; task_id is the
\* task's id; context_id is the task's context_id when that is non-empty and
\* its previous value otherwise.  After a Message answer none of the three
\* has changed.
C5_TaskStateBookkeeping ==
    (last_send.called /\ last_send.response # None) =>
        LET resp == TheValue(last_send.response)
            pre == last_send.pre_state
            post == last_send.post_state
        IN  /\ resp.kind = "Task" =>
                  /\ post.session_active =
                        {resp.task.status \notin {"completed", "canceled", "failed", "unknown"}}
                  /\ post.task_id = {resp.task.id}
                  /\ post.context_id = IF resp.task.context_id # ""
                                       THEN {resp.task.context_id}
                                       ELSE pre.context_id
            /\ resp.kind = "Message" =>
                  /\ post.session_active = pre.session_active
                  /\ post.task_id = pre.task_id
                  /\ post.context_id = pre.context_id

\* C5 witness: a task without a context id came back in state unknown while
\* a context id was stored: the context id is kept and the session ends.
C5_Witness ==
    /\ last_send.called
    /\ last_send.response # None
    /\ TheValue(last_send.response).kind = "Task"
    /\ TheValue(last_send.response).task.status = "unknown"
    /\ TheValue(last_send.response).task.context_id = ""
    /\ last_send.pre_state.context_id = {"ctx1"}
    /\ last_send.post_state.context_id = {"ctx1"}
    /\ last_send.post_state.session_active = {FALSE}

\* C6: send_message with an agent_name that is not registered raises
\* ValueError before anything else: the session state is what it was and no
\* message has been sent.
C6_UnknownAgentRejectedFirst ==
    (last_send.called /\ last_send.agent_name \notin remote_agent_connections) =>
        /\ last_send.outcome.kind = "raised"
        /\ last_send.outcome.error = "ValueError: not found"
        /\ last_send.post_state = last_send.pre_state
        /\ last_send.sent_after = last_send.sent_before
        /\ last_send.response = None

\* C6 witness: an unknown agent was named after an earlier call had recorded
\* an agent and a task in the state.
C6_Witness ==
    /\ last_send.called
    /\ last_send.agent_name = "Unknown Agent"
    /\ last_send.pre_state.agent # None
    /\ last_send.pre_state.task_id # None
    /\ last_send.outcome.kind = "raised"

IsValueError(out) ==
    out.kind = "raised"
        /\ out.error \in {"ValueError: cancelled", "ValueError: failed", "ValueError: not found"}

RECURSIVE FlattenLists(_)
FlattenLists(lists) ==
    IF lists = << >> THEN << >> ELSE Head(lists) \o FlattenLists(Tail(lists))

\* The parts the claim lists: those of the status message, then those of each
\* artifact in order.
PartsInOrder(task) ==
    (IF task.content.message # None THEN TheValue(task.content.message) ELSE << >>)
        \o FlattenLists(task.content.artifacts)

SubmittedAt == {i \in DOMAIN events : events[i] = StatusEvent("submitted", "")}
WorkingAt == {i \in DOMAIN events : events[i] = StatusEvent("working", "")}
CompletedAt == {i \in DOMAIN events : events[i].kind = "status" /\ events[i].state = "completed"}
FailedAt == {i \in DOMAIN events : events[i].kind = "status" /\ events[i].state = "failed"}
ArtifactAt == {i \in DOMAIN events : events[i].kind = "artifact"}

\* execute is over, by a return or by an exception.
ExecuteEnded == epc = "idle" /\ result \in {"returned", "raised"}

\* execute has got past `await updater.start_work()`.
PastStartWork ==
    \/ epc \in {"refresh", "session", "run", "handler"}
    \/ ExecuteEnded /\ (result = "returned" \/ WorkingAt # {})

\* The order of what is on the event queue: submitted before working, working
\* before any artifact or terminal status, the "answer" artifact right before
\* completed.
LifecycleOrder ==
    /\ \A i \in SubmittedAt : \A j \in WorkingAt : i < j
    /\ \A i \in ArtifactAt \cup CompletedAt \cup FailedAt : \E j \in WorkingAt : j < i
    /\ \A i \in CompletedAt :
          /\ i > 1
          /\ events[i - 1].kind = "artifact"
          /\ events[i - 1].name = "answer"

C2_FailureAlwaysReported ==
    (epc = "idle" /\ result = "raised") =>
        \E i \in DOMAIN events : events[i] = StatusEvent("failed", "Error: " \o exc)


(***************************************************************************)
(* Claims about the executors' sessions and cancel (under SpecExec)        *)
(***************************************************************************)
\* Whether an earlier _get_or_create_session call had the context id of the
\* j-th call.
SeenBefore(j) ==
    \E i \in 1..(j - 1) : session_log[i].context_id = session_log[j].context_id

\* C11: with an in-memory session service, _get_or_create_session(context_id)
\* returns the session whose id is the context id; the first call for a
\* context id creates it, every later call for the same context id returns
\* it without creating another, and distinct context ids get distinct
\* sessions.
C11_InMemoryGetOrCreate ==
    InMemorySessions =>
        /\ \A j \in 1..Len(session_log) :
              /\ session_log[j].id = session_log[j].context_id
              /\ session_log[j].created <=> ~SeenBefore(j)
              /\ \A i \in 1..Len(session_log) :
                    session_log[i].context_id # session_log[j].context_id
                        => session_log[i].id # session_log[j].id
        /\ n_created = Cardinality({session_log[j].context_id : j \in 1..Len(session_log)})
        /\ sessions = {session_log[j].context_id : j \in 1..Len(session_log)}

\* Two calls for the same context id on an in-memory service: the first
\* created the session, the second returned it.
C11_Witness ==
    /\ InMemorySessions
    /\ Len(session_log) = 2
    /\ session_log[1].context_id = session_log[2].context_id
    /\ session_log[1].created
    /\ ~session_log[2].created
    /\ session_log[2].id = session_log[1].id
    /\ n_created = 1


\* C12: AdkBaseMcpAgentExecutor._get_or_create_session(context_id) returns the
\* existing session of that context when there is one and creates a session
\* only otherwise, so two execute calls with the same context id run against
\* the same session.
C12_BaseReusesSessionOfContext ==
    variant = "base" =>
        \A j \in 1..Len(session_log) :
            /\ session_log[j].created <=> ~SeenBefore(j)
            /\ \A i \in 1..(j - 1) :
                  session_log[i].context_id = session_log[j].context_id
                      => session_log[j].id = session_log[i].id


\* C13: every cancel call raises ServerError(UnsupportedOperationError), puts
\* no event on the event queue and leaves the executor's state (agent and
\* runner, token manager, toolset headers, sessions) and the task's status
\* unchanged, whatever state the task is in and wherever execute stands.
C13_CancelUnsupported ==
    [][cancels' # cancels =>
          /\ last_cancel'.raised = "ServerError(UnsupportedOperationError)"
          /\ events' = events
          /\ TaskStatus(events') = last_cancel'.task_status
          /\ UNCHANGED <<variant, agent_engine_id, agent, token_manager, mcp_headers,
                         sessions, session, n_created, session_log>>
          /\ UNCHANGED <<epc, answer_sent, run_events, exc, result, requests>>
          /\ UNCHANGED <<_token, _expiry, refresh_buffer_seconds>>]_vars

\* cancel was called on a task whose answer and completed status are on the
\* queue, and raised.
C13_Witness ==
    /\ cancels = 1
    /\ last_cancel.raised = "ServerError(UnsupportedOperationError)"
    /\ last_cancel.task_status = "completed"
    /\ TaskStatus(events) = "completed"
    /\ Len(events) = 4
    /\ agent

====
